---- MODULE Spec2Model ----
(***************************************************************************)
(* Temporal sanction engine of src/utils/moderation.rs: the expiry task    *)
(* spawned by queue_unmute_member, the rejoin handler mute_on_join, the    *)
(* "muted" collection they share and the guild's role directory.           *)
(***************************************************************************)
EXTENDS Integers, Sequences, FiniteSets, TLC

\* ------------------------------------------------------------------ bounds

NumTasks == 2
NumJoins == 1
MaxDelay == 1
\* Invocations of ban_moderation, and the largest delete-message-days asked.
MaxBans == 1
MaxDmd == 30

\* The member the model follows.
Users == {41}
Tasks == 1..NumTasks
Joins == 1..NumJoins
Delays == 0..MaxDelay

\* Role ids a member can hold besides the mute role.
RoleIds == {3, 12}
\* configuration.general.mute.role, also handed to queue_unmute_member.
MuteRole == 7

\* Errors of the two collaborators, carried verbatim inside Error.
StoreErrors == {"MongoError"}
SerenityErrors == {"Http", "Model"}

\* ------------------------------------------------------- id <-> string

\* u64::to_string: the decimal digits, most significant first, no padding.
RECURSIVE to_string(_)
to_string(n) ==
    IF n < 10 THEN <<n>> ELSE Append(to_string(n \div 10), n % 10)

\* str::parse::<u64>: the value of a digit string; -1 stands for Err
\* (the empty string; a string with a non-digit).
RECURSIVE parse_u64(_)
parse_u64(s) ==
    IF Len(s) = 0 THEN -1
    ELSE IF \E i \in 1..Len(s) : s[i] \notin 0..9 THEN -1
    ELSE IF Len(s) = 1 THEN s[1]
    ELSE parse_u64(SubSeq(s, 1, Len(s) - 1)) * 10 + s[Len(s)]

\* The orders in which a set of roles can be listed.
RECURSIVE Orderings(_)
Orderings(S) ==
    IF S = {} THEN {<<>>}
    ELSE UNION {{<<x>> \o q : q \in Orderings(S \ {x})} : x \in S}

Range(q) == {q[i] : i \in 1..Len(q)}

\* ------------------------------------------------------------- records

\* Muted { user_id, taken_roles }; rid names the document (its _id).
NoRecord == [rid |-> 0, user_id |-> <<>>, taken_roles |-> <<>>]

Muted(rid, user, taken) ==
    [rid |-> rid,
     user_id |-> to_string(user),
     taken_roles |-> [i \in 1..Len(taken) |-> to_string(taken[i])]]

\* The record of another member, muted all along, whom no task or handler of
\* the model is about.
OtherRecord == Muted(100, 14, <<3>>)

\* Option<Error>
None == [some |-> FALSE, err |-> ""]
Some(e) == [some |-> TRUE, err |-> e]

\* Result<Option<Muted>, Error> of a store call.
ReplyOk(rec) == [kind |-> "ok", rec |-> rec, err |-> ""]
ReplyErr(e) == [kind |-> "err", rec |-> NoRecord, err |-> e]

VARIABLES
    store,      \* the "muted" collection: a set of Muted documents
    roles,      \* the directory: the roles each member holds
    task,       \* the tasks spawned by queue_unmute_member
    join,       \* the invocations of mute_on_join
    ban         \* the invocations of ban_moderation that returned

vars == <<store, roles, task, join, ban>>

\* pc: the await the task is suspended at, or how it ended. sleep_left: what
\* is left of the sleep. delete_result: which of Err, Ok(None), Ok(Some) the
\* task saw. find_result: the record delete_result carried.
\* deleted: the record the task's find_and_delete removed from the store.
\* calls: the directory calls the adapter received from the task.
IdleTask ==
    [pc |-> "unspawned", user |-> 0, mute_role_id |-> 0, sleep_left |-> 0,
     delete_result |-> "", find_result |-> NoRecord, deleted |-> NoRecord,
     outcome |-> None, calls |-> <<>>]

IdleJoin ==
    [pc |-> "idle", user |-> 0, found |-> FALSE, log |-> <<>>, calls |-> <<>>,
     ret |-> "pending"]

\* ------------------------------------------------------ the collaborators

\* Database::find / find_and_delete filter: Muted { user_id: Some(..), .. }.
Matching(user_id) == {r \in store : r.user_id = user_id}

\* Database::find with limit(1): the cursor's first batch, or a store error.
find(user_id) ==
    {[store |-> store, reply |-> ReplyErr(e)] : e \in StoreErrors}
    \cup (IF Matching(user_id) = {}
          THEN {[store |-> store, reply |-> ReplyOk(NoRecord)]}
          ELSE {[store |-> store, reply |-> ReplyOk(r)] : r \in Matching(user_id)})

\* Database::find_and_delete: one storage operation that removes the matching
\* document and returns it; Ok(None) when none matches; a failed call leaves
\* the collection as it was.
find_and_delete(user_id) ==
    {[store |-> store, reply |-> ReplyErr(e)] : e \in StoreErrors}
    \cup (IF Matching(user_id) = {}
          THEN {[store |-> store, reply |-> ReplyOk(NoRecord)]}
          ELSE {[store |-> store \ {r}, reply |-> ReplyOk(r)] : r \in Matching(user_id)})

\* A directory call as the adapter received it.
DirCall(op, ids, ok) == [op |-> op, roles |-> ids, ok |-> ok]

\* ------------------------------------------------------------------ Init

Init ==
    /\ store = {OtherRecord}
    /\ roles \in [Users -> SUBSET RoleIds]
    /\ task = [t \in Tasks |-> IdleTask]
    /\ join = [j \in Joins |-> IdleJoin]
    /\ ban = <<>>

\* Task handles and handler invocations are taken in order.
FreeTask(t) ==
    /\ task[t].pc = "unspawned"
    /\ \A x \in Tasks : x < t => task[x].pc # "unspawned"

FreeJoin(j) ==
    /\ join[j].pc = "idle"
    /\ \A x \in Joins : x < j => join[x].pc # "idle"

\* ------------------------------------------------- queue_unmute_member

\* The spawned task, about to sleep for mute_duration.
queue_unmute_member(member, mute_role_id, mute_duration) ==
    [IdleTask EXCEPT !.pc = "sleep", !.user = member,
                     !.mute_role_id = mute_role_id,
                     !.sleep_left = mute_duration]

\* How many records of the followed members were ever inserted: those in the
\* store and those a find_and_delete removed.
Inserted ==
    Cardinality(store \ {OtherRecord})
    + Cardinality({t \in Tasks : task[t].deleted # NoRecord})

\* The caller that applies a mute: it takes the member's roles, gives the mute
\* role, inserts the record and arms the timer.
Mute(t, u, d) ==
    /\ FreeTask(t)
    /\ Matching(to_string(u)) = {}
    /\ \E taken \in Orderings(roles[u] \ {MuteRole}) :
          store' = store \cup {Muted(Inserted + 1, u, taken)}
    /\ roles' = [roles EXCEPT ![u] = {MuteRole}]
    /\ task' = [task EXCEPT ![t] = queue_unmute_member(u, MuteRole, d)]
    /\ UNCHANGED <<join, ban>>

\* Another caller of queue_unmute_member for a member (a manual unmute, a
\* second timer): the handle of an earlier task is not needed to call it.
QueueUnmute(t, u, d) ==
    /\ FreeTask(t)
    /\ task' = [task EXCEPT ![t] = queue_unmute_member(u, MuteRole, d)]
    /\ UNCHANGED <<store, roles, join, ban>>

\* One unit of wall-clock time passes for every sleeping task.
Tick ==
    /\ \E t \in Tasks : task[t].pc = "sleep" /\ task[t].sleep_left > 0
    /\ task' = [t \in Tasks |->
                  IF task[t].pc = "sleep" /\ task[t].sleep_left > 0
                  THEN [task[t] EXCEPT !.sleep_left = @ - 1]
                  ELSE task[t]]
    /\ UNCHANGED <<store, roles, join, ban>>

\* Mutant: the task does not wait for the sleep to be over.
ExpirySleepEarly(t) ==
    /\ task[t].pc = "sleep"
    /\ task' = [task EXCEPT ![t].pc = "find_and_delete"]
    /\ UNCHANGED <<store, roles, join, ban>>

\* tokio::time::sleep(mute_duration) is over: the task issues find_and_delete
\* and awaits it.
ExpirySleep(t) ==
    /\ task[t].pc = "sleep"
    /\ task[t].sleep_left = 0
    /\ task' = [task EXCEPT ![t].pc = "find_and_delete"]
    /\ UNCHANGED <<store, roles, join, ban>>

\* Mutant: the roles come out in the reverse of the stored order.
ParsedRolesReversed(rec) ==
    [i \in 1..Len(rec.taken_roles) |->
        parse_u64(rec.taken_roles[Len(rec.taken_roles) + 1 - i])]

\* taken_roles.unwrap().into_iter().map(|r| RoleId::from(r.parse().unwrap()))
ParsedRoles(rec) == [i \in 1..Len(rec.taken_roles) |-> parse_u64(rec.taken_roles[i])]

\* Mutant: with no record found the task still goes on to remove the mute role.
AfterDeleteUnmutesAnyway(tk, reply) ==
    IF reply.kind = "err"
    THEN [tk EXCEPT !.pc = "done", !.delete_result = "Err",
                    !.outcome = Some(reply.err)]
    ELSE IF reply.rec = NoRecord
    THEN [tk EXCEPT !.pc = "remove_role", !.delete_result = "Ok(None)"]
    ELSE [tk EXCEPT !.pc = "add_roles", !.delete_result = "Ok(Some)",
                    !.find_result = reply.rec]

\* Mutant: a store error is treated like a missing record.
AfterDeleteSwallowsError(tk, reply) ==
    IF reply.kind = "err"
    THEN [tk EXCEPT !.pc = "done", !.delete_result = "Err", !.outcome = None]
    ELSE IF reply.rec = NoRecord
    THEN [tk EXCEPT !.pc = "done", !.delete_result = "Ok(None)", !.outcome = None]
    ELSE [tk EXCEPT !.pc = "add_roles", !.delete_result = "Ok(Some)",
                    !.find_result = reply.rec]

\* The task as it goes on from delete_result, up to its next await.
AfterDelete(tk, reply) ==
    IF reply.kind = "err"
    THEN [tk EXCEPT !.pc = "done", !.delete_result = "Err",
                    !.outcome = Some(reply.err)]
    ELSE IF reply.rec = NoRecord
    THEN [tk EXCEPT !.pc = "done", !.delete_result = "Ok(None)", !.outcome = None]
    ELSE IF \E i \in 1..Len(reply.rec.taken_roles) : ParsedRoles(reply.rec)[i] < 0
    THEN [tk EXCEPT !.pc = "panicked", !.delete_result = "Ok(Some)",
                    !.find_result = reply.rec]
    ELSE [tk EXCEPT !.pc = "add_roles", !.delete_result = "Ok(Some)",
                    !.find_result = reply.rec]

\* Mutant: the task reads the record with find and leaves it in the store.
ExpiryFindWithoutDelete(t) ==
    /\ task[t].pc = "find_and_delete"
    /\ \E res \in find(to_string(task[t].user)) :
          /\ store' = res.store
          /\ task' = [task EXCEPT ![t] = AfterDelete(@, res.reply)]
    /\ UNCHANGED <<roles, join, ban>>

\* The store serves the task's find_and_delete and the task goes on.
ExpiryFindAndDelete(t) ==
    /\ task[t].pc = "find_and_delete"
    /\ \E res \in find_and_delete(to_string(task[t].user)) :
          /\ store' = res.store
          /\ task' = [task EXCEPT ![t] =
                AfterDelete([@ EXCEPT !.deleted = res.reply.rec], res.reply)]
    /\ UNCHANGED <<roles, join, ban>>

\* Mutant: the task finishes after add_roles and leaves the mute role.
AfterAddRolesStops(tk, reply) ==
    IF reply.kind = "err"
    THEN [tk EXCEPT !.pc = "done", !.outcome = Some(reply.err)]
    ELSE [tk EXCEPT !.pc = "done", !.outcome = None]

\* Mutant: a failed add_roles is tried again.
AfterAddRolesRetry(tk, reply) ==
    IF reply.kind = "err"
    THEN [tk EXCEPT !.pc = "add_roles"]
    ELSE [tk EXCEPT !.pc = "remove_role"]

\* Mutant: the task goes on to remove_role whatever add_roles answered.
AfterAddRolesIgnoresError(tk, reply) == [tk EXCEPT !.pc = "remove_role"]

\* The task as it goes on from the result of add_roles.
AfterAddRoles(tk, reply) ==
    IF reply.kind = "err"
    THEN [tk EXCEPT !.pc = "done", !.outcome = Some(reply.err)]
    ELSE [tk EXCEPT !.pc = "remove_role"]

\* The directory serves member.add_roles(&http, &taken_roles) and the task
\* goes on.
ExpiryAddRoles(t) ==
    /\ task[t].pc = "add_roles"
    /\ LET ids == ParsedRoles(task[t].find_result) IN
       \/ /\ roles' = [roles EXCEPT ![task[t].user] = @ \cup Range(ids)]
          /\ task' = [task EXCEPT ![t] =
                AfterAddRoles([@ EXCEPT !.calls = Append(@, DirCall("add_roles", ids, TRUE))],
                              ReplyOk(NoRecord))]
       \/ \E e \in SerenityErrors :
          /\ roles' = roles
          /\ task' = [task EXCEPT ![t] =
                AfterAddRoles([@ EXCEPT !.calls = Append(@, DirCall("add_roles", ids, FALSE))],
                              ReplyErr(e))]
    /\ UNCHANGED <<store, join, ban>>

\* Mutant: a failed remove_role is tried again.
AfterRemoveRoleRetry(tk, reply) ==
    IF reply.kind = "err"
    THEN [tk EXCEPT !.pc = "remove_role"]
    ELSE [tk EXCEPT !.pc = "done", !.outcome = None]

\* The task as it finishes with the result of remove_role.
AfterRemoveRole(tk, reply) ==
    IF reply.kind = "err"
    THEN [tk EXCEPT !.pc = "done", !.outcome = Some(reply.err)]
    ELSE [tk EXCEPT !.pc = "done", !.outcome = None]

\* The directory serves member.remove_role(http, mute_role_id) and the task
\* finishes.
ExpiryRemoveRole(t) ==
    /\ task[t].pc = "remove_role"
    /\ LET ids == <<task[t].mute_role_id>> IN
       \/ /\ roles' = [roles EXCEPT ![task[t].user] = @ \ Range(ids)]
          /\ task' = [task EXCEPT ![t] =
                AfterRemoveRole([@ EXCEPT !.calls = Append(@, DirCall("remove_role", ids, TRUE))],
                                ReplyOk(NoRecord))]
       \/ \E e \in SerenityErrors :
          /\ roles' = roles
          /\ task' = [task EXCEPT ![t] =
                AfterRemoveRole([@ EXCEPT !.calls = Append(@, DirCall("remove_role", ids, FALSE))],
                                ReplyErr(e))]
    /\ UNCHANGED <<store, join, ban>>

\* The awaits at which the task can be suspended.
Suspended == {"sleep", "find_and_delete", "add_roles", "remove_role"}

\* JoinHandle::abort while the task is suspended and the call it awaits, if
\* any, has not been served: the task is dropped there.
Cancel(t) ==
    /\ task[t].pc \in Suspended
    /\ task' = [task EXCEPT ![t].pc = "aborted", ![t].sleep_left = 0]
    /\ UNCHANGED <<store, roles, join, ban>>

\* JoinHandle::abort while the awaited call is in flight: the collaborator
\* serves the call, the task is dropped before it sees the result.
CancelInFlight(t) ==
    /\ \/ /\ task[t].pc = "find_and_delete"
          /\ \E res \in find_and_delete(to_string(task[t].user)) :
                /\ res.reply.kind = "ok"
                /\ store' = res.store
                /\ task' = [task EXCEPT ![t].pc = "aborted", ![t].deleted = res.reply.rec]
          /\ roles' = roles
       \/ /\ task[t].pc = "add_roles"
          /\ LET ids == ParsedRoles(task[t].find_result) IN
             /\ roles' = [roles EXCEPT ![task[t].user] = @ \cup Range(ids)]
             /\ task' = [task EXCEPT ![t].pc = "aborted",
                            ![t].calls = Append(@, DirCall("add_roles", ids, TRUE))]
          /\ store' = store
       \/ /\ task[t].pc = "remove_role"
          /\ LET ids == <<task[t].mute_role_id>> IN
             /\ roles' = [roles EXCEPT ![task[t].user] = @ \ Range(ids)]
             /\ task' = [task EXCEPT ![t].pc = "aborted",
                            ![t].calls = Append(@, DirCall("remove_role", ids, TRUE))]
          /\ store' = store
    /\ UNCHANGED <<join, ban>>

\* ------------------------------------------------------- mute_on_join

\* Mutant: the handler takes the record out of the store as it reads it.
MuteOnJoinFindConsumes(j, u) ==
    /\ FreeJoin(j)
    /\ \E res \in find_and_delete(to_string(u)) :
          /\ store' = res.store
          /\ IF res.reply.kind = "err"
             THEN join' = [join EXCEPT ![j] =
                     [@ EXCEPT !.pc = "done", !.user = u, !.ret = "()",
                               !.log = <<"Failed to query database for muted users">>]]
             ELSE join' = [join EXCEPT ![j] =
                     IF res.reply.rec # NoRecord
                     THEN [@ EXCEPT !.pc = "add_role", !.user = u, !.found = TRUE,
                                    !.log = <<"rejoined the server">>]
                     ELSE [@ EXCEPT !.pc = "done", !.user = u, !.ret = "()"]]
    /\ UNCHANGED <<roles, task, ban>>

\* Mutant: the handler goes on to add_role whether the cursor holds a
\* document or not.
MuteOnJoinFindMutesAnyway(j, u) ==
    /\ FreeJoin(j)
    /\ \E res \in find(to_string(u)) :
          IF res.reply.kind = "err"
          THEN join' = [join EXCEPT ![j] =
                  [@ EXCEPT !.pc = "done", !.user = u, !.ret = "()",
                            !.log = <<"Failed to query database for muted users">>]]
          ELSE \/ join' = [join EXCEPT ![j] =
                     [@ EXCEPT !.pc = "done", !.user = u, !.ret = "()",
                               !.log = <<"Failed to advance the cursor">>]]
               \/ join' = [join EXCEPT ![j] =
                     [@ EXCEPT !.pc = "add_role", !.user = u,
                               !.found = (res.reply.rec # NoRecord),
                               !.log = <<"rejoined the server">>]]
    /\ UNCHANGED <<store, roles, task, ban>>

\* A member joined: the handler queries the "muted" collection for it and
\* advances the cursor (the find's first batch holds the document, if any).
MuteOnJoinFind(j, u) ==
    /\ FreeJoin(j)
    /\ \E res \in find(to_string(u)) :
          IF res.reply.kind = "err"
          THEN join' = [join EXCEPT ![j] =
                  [@ EXCEPT !.pc = "done", !.user = u, !.ret = "()",
                            !.log = <<"Failed to query database for muted users">>]]
          ELSE \/ join' = [join EXCEPT ![j] =
                     [@ EXCEPT !.pc = "done", !.user = u, !.ret = "()",
                               !.log = <<"Failed to advance the cursor">>]]
               \/ join' = [join EXCEPT ![j] =
                     IF res.reply.rec # NoRecord
                     THEN [@ EXCEPT !.pc = "add_role", !.user = u, !.found = TRUE,
                                    !.log = <<"rejoined the server">>]
                     ELSE [@ EXCEPT !.pc = "done", !.user = u, !.ret = "()"]]
    /\ UNCHANGED <<store, roles, task, ban>>

\* Mutant: a failed add_role drops the member's record.
MuteOnJoinAddRoleDropsRecord(j) ==
    /\ join[j].pc = "add_role"
    /\ \/ /\ roles' = [roles EXCEPT ![join[j].user] = @ \cup {MuteRole}]
          /\ store' = store
          /\ join' = [join EXCEPT ![j].pc = "done", ![j].ret = "()",
                         ![j].log = Append(@, "was successfully muted"),
                         ![j].calls = Append(@, DirCall("add_role", <<MuteRole>>, TRUE))]
       \/ /\ roles' = roles
          /\ store' = store \ Matching(to_string(join[j].user))
          /\ join' = [join EXCEPT ![j].pc = "done", ![j].ret = "()",
                         ![j].log = Append(@, "Failed to mute member after rejoining"),
                         ![j].calls = Append(@, DirCall("add_role", <<MuteRole>>, FALSE))]
    /\ UNCHANGED <<task, ban>>

\* Mutant: add_role flips the mute role, taking it from a member who holds it.
MuteOnJoinAddRoleToggles(j) ==
    /\ join[j].pc = "add_role"
    /\ \/ /\ roles' = [roles EXCEPT ![join[j].user] =
                         IF MuteRole \in @ THEN @ \ {MuteRole} ELSE @ \cup {MuteRole}]
          /\ join' = [join EXCEPT ![j].pc = "done", ![j].ret = "()",
                         ![j].log = Append(@, "was successfully muted"),
                         ![j].calls = Append(@, DirCall("add_role", <<MuteRole>>, TRUE))]
       \/ /\ roles' = roles
          /\ join' = [join EXCEPT ![j].pc = "done", ![j].ret = "()",
                         ![j].log = Append(@, "Failed to mute member after rejoining"),
                         ![j].calls = Append(@, DirCall("add_role", <<MuteRole>>, FALSE))]
    /\ UNCHANGED <<store, task, ban>>

\* new_member.add_role(&ctx.http, RoleId(mute.role)), its result only logged.
MuteOnJoinAddRole(j) ==
    /\ join[j].pc = "add_role"
    /\ \/ /\ roles' = [roles EXCEPT ![join[j].user] = @ \cup {MuteRole}]
          /\ join' = [join EXCEPT ![j].pc = "done", ![j].ret = "()",
                         ![j].log = Append(@, "was successfully muted"),
                         ![j].calls = Append(@, DirCall("add_role", <<MuteRole>>, TRUE))]
       \/ /\ roles' = roles
          /\ join' = [join EXCEPT ![j].pc = "done", ![j].ret = "()",
                         ![j].log = Append(@, "Failed to mute member after rejoining"),
                         ![j].calls = Append(@, DirCall("add_role", <<MuteRole>>, FALSE))]
    /\ UNCHANGED <<store, task, ban>>

\* ------------------------------------------------------------------ Next

Next ==
    \/ \E t \in Tasks, u \in Users, d \in Delays : Mute(t, u, d)
    \/ \E t \in Tasks, u \in Users, d \in Delays : QueueUnmute(t, u, d)
    \/ Tick
    \/ \E t \in Tasks : ExpirySleep(t)
    \/ \E t \in Tasks : ExpiryFindAndDelete(t)
    \/ \E t \in Tasks : ExpiryAddRoles(t)
    \/ \E t \in Tasks : ExpiryRemoveRole(t)
    \/ \E t \in Tasks : Cancel(t)
    \/ \E t \in Tasks : CancelInFlight(t)
    \/ \E j \in Joins, u \in Users : MuteOnJoinFind(j, u)
    \/ \E j \in Joins : MuteOnJoinAddRole(j)

Spec == Init /\ [][Next]_vars

\* The runtime polls a task that can run, time passes for a sleeping task,
\* and a call that was issued is answered (with Ok or with Err).
Fairness ==
    /\ WF_vars(Tick)
    /\ \A t \in Tasks :
          /\ WF_vars(ExpirySleep(t))
          /\ WF_vars(ExpiryFindAndDelete(t))
          /\ WF_vars(ExpiryAddRoles(t))
          /\ WF_vars(ExpiryRemoveRole(t))

FairSpec == Spec /\ Fairness

\* The expiry tasks and their callers alone. mute_on_join reads the store and
\* writes roles and join only, none of which a task step's guard or a task's
\* own state depends on, so what holds of task and store here holds under
\* FairSpec as well.
NextExpiry ==
    \/ \E t \in Tasks, u \in Users, d \in Delays : Mute(t, u, d)
    \/ \E t \in Tasks, u \in Users, d \in Delays : QueueUnmute(t, u, d)
    \/ Tick
    \/ \E t \in Tasks : ExpirySleep(t)
    \/ \E t \in Tasks : ExpiryFindAndDelete(t)
    \/ \E t \in Tasks : ExpiryAddRoles(t)
    \/ \E t \in Tasks : ExpiryRemoveRole(t)
    \/ \E t \in Tasks : Cancel(t)
    \/ \E t \in Tasks : CancelInFlight(t)

FairExpirySpec == Init /\ [][NextExpiry]_vars /\ Fairness

\* ---------------------------------------------------------------- claims

\* The directory calls of kind op among a task's calls.
CallsOf(t, op) == SelectSeq(task[t].calls, LAMBDA c : c.op = op)

\* The records of the followed members that were ever handed to a task.
Received == {task[t].find_result : t \in Tasks} \ {NoRecord}

\* The tasks that were handed record r, and the restoration calls made for it.
Receivers(r) == {t \in Tasks : task[t].find_result = r}
Restorers(r, op) == {t \in Receivers(r) : Len(CallsOf(t, op)) > 0}

\* C1: every sanction record is resolved at most once. Of the tasks that call
\* find_and_delete for a subject (the expiry task, a manual unmute, a second
\* fire), at most one is handed the record, and for that record the directory
\* receives at most one add_roles and at most one remove_role.
C1_AtMostOneResolution ==
    \A r \in Received :
        /\ Cardinality(Receivers(r)) <= 1
        /\ Cardinality(Restorers(r, "add_roles")) <= 1
        /\ Cardinality(Restorers(r, "remove_role")) <= 1
        /\ \A t \in Receivers(r) :
              Len(CallsOf(t, "add_roles")) <= 1 /\ Len(CallsOf(t, "remove_role")) <= 1

\* C1 witness: a second task fired for the same subject while the first, which
\* was handed the record, was still restoring; the second found nothing.
C1_Witness ==
    \E t1, t2 \in Tasks :
        /\ t1 < t2
        /\ task[t1].user = task[t2].user
        /\ task[t1].pc = "remove_role"
        /\ task[t1].find_result # NoRecord
        /\ task[t2].pc = "done"
        /\ task[t2].delete_result = "Ok(None)"

\* Every call the directory received from a task or a handler succeeded.
AllOk(calls) == \A i \in 1..Len(calls) : calls[i].ok

\* C2: one mute_on_join invocation and one expiry resolution for the same
\* subject, every store and directory call succeeding: once both have
\* completed, the subject holds the mute role only if its record is still in
\* the store.
C2_RejoinAndExpiryAgree ==
    \A j \in Joins, t \in Tasks :
        ( /\ join[j].pc = "done"
          /\ task[t].pc = "done"
          /\ join[j].user = task[t].user
          /\ \A x \in Joins \ {j} : join[x].pc = "idle"
          /\ \A x \in Tasks \ {t} : task[x].pc = "unspawned"
          /\ join[j].log \in {<<>>, <<"rejoined the server", "was successfully muted">>}
          /\ task[t].delete_result \in {"Ok(None)", "Ok(Some)"}
          /\ task[t].outcome = None
          /\ AllOk(task[t].calls) /\ AllOk(join[j].calls) )
        => (MuteRole \in roles[task[t].user]
              => Matching(to_string(task[t].user)) # {})

\* The tasks whose find_and_delete removed record r from the store.
Deleters(r) == {t \in Tasks : task[t].deleted = r}

\* C3: cancelling the handle is safe against a concurrent fire. Wherever the
\* abort lands (in the sleep, with find_and_delete, add_roles or remove_role
\* in flight), every record is deleted by at most one find_and_delete and is
\* gone from the store from then on, and the directory receives at most one
\* add_roles and one remove_role for it.
C3_CancelSafe ==
    (\E c \in Tasks : task[c].pc = "aborted") =>
        /\ \A t \in Tasks :
              Len(CallsOf(t, "add_roles")) <= 1 /\ Len(CallsOf(t, "remove_role")) <= 1
        /\ \A t \in Tasks :
              task[t].deleted # NoRecord =>
                  /\ Deleters(task[t].deleted) = {t}
                  /\ task[t].deleted \notin store
                  /\ \A x \in Tasks \ {t} :
                        task[x].find_result # task[t].deleted
        /\ \A t \in Tasks :
              task[t].calls # <<>> => task[t].deleted # NoRecord

\* C3 witness: the abort landed while find_and_delete was in flight: the
\* record is deleted, the task never saw it, and a later fire for the same
\* subject found nothing.
C3_Witness ==
    \E t1, t2 \in Tasks :
        /\ t1 # t2
        /\ task[t1].user = task[t2].user
        /\ task[t1].pc = "aborted"
        /\ task[t1].deleted # NoRecord
        /\ task[t1].find_result = NoRecord
        /\ task[t2].pc = "done"
        /\ task[t2].delete_result = "Ok(None)"

\* C4: a task whose find_and_delete returned no record makes no directory
\* call (no add_roles, no remove_role) and ends with the outcome None.
C4_NoRecordNoDirectoryCall ==
    \A t \in Tasks :
        task[t].delete_result = "Ok(None)" =>
            /\ task[t].pc = "done"
            /\ task[t].outcome = None
            /\ task[t].calls = <<>>

\* C4 witness: the record was removed by another task for the same subject
\* and this task, firing later, found none.
C4_Witness ==
    \E t, x \in Tasks :
        /\ t # x
        /\ task[t].user = task[x].user
        /\ task[x].deleted # NoRecord
        /\ task[t].delete_result = "Ok(None)"
        /\ task[t].pc = "done"

\* A task that saw find_and_delete fail has ended with the store's error as
\* its outcome and has made no directory call.
C5_Failed ==
    \A t \in Tasks :
        task[t].delete_result = "Err" =>
            /\ task[t].pc = "done"
            /\ task[t].outcome.some
            /\ task[t].outcome.err \in StoreErrors
            /\ task[t].calls = <<>>

\* The step in which a task's find_and_delete fails leaves the store and
\* every member's roles as they were.
C5_Step ==
    \A t \in Tasks :
        (task[t].pc = "find_and_delete" /\ task'[t].delete_result = "Err")
            => (store' = store /\ roles' = roles)

\* C5: if find_and_delete fails with a store error when the task fires, the
\* task reports a failure carrying that error, the directory adapter is called
\* zero times, and the store and the subject's roles are left as they were.
C5_StoreErrorNoDirectoryCall == [](C5_Failed) /\ [][C5_Step]_vars

\* C5 witness: the task ended on a store error; the record is still in the
\* store and the subject still holds the mute role.
C5_Witness ==
    \E t \in Tasks :
        /\ task[t].delete_result = "Err"
        /\ task[t].outcome = Some("MongoError")
        /\ Matching(to_string(task[t].user)) # {}
        /\ MuteRole \in roles[task[t].user]

\* C6: in a successful resolution of a record with taken_roles T and mute role
\* M the directory receives exactly add_roles(T), the ids being those stored,
\* in the stored order, and then remove_role(M); in no task is remove_role
\* issued before add_roles has succeeded.
C6_AddThenRemove ==
    \A t \in Tasks :
        /\ ( task[t].pc = "done" /\ task[t].delete_result = "Ok(Some)"
               /\ task[t].outcome = None )
           => LET T == task[t].deleted.taken_roles
                  c == task[t].calls
              IN /\ Len(c) = 2
                 /\ c[1].op = "add_roles" /\ c[1].ok
                 /\ Len(c[1].roles) = Len(T)
                 /\ \A i \in 1..Len(T) : to_string(c[1].roles[i]) = T[i]
                 /\ c[2] = DirCall("remove_role", <<MuteRole>>, TRUE)
        /\ \A k \in 1..Len(task[t].calls) :
              task[t].calls[k].op = "remove_role"
                  => /\ k = 2
                     /\ task[t].calls[1].op = "add_roles"
                     /\ task[t].calls[1].ok

\* C6 witness: a record with taken_roles ["12", "3"] was resolved.
C6_Witness ==
    \E t \in Tasks :
        /\ task[t].pc = "done"
        /\ task[t].outcome = None
        /\ task[t].deleted.taken_roles = <<to_string(12), to_string(3)>>
        /\ Len(task[t].calls) = 2
        /\ roles[task[t].user] = {3, 12}

\* The task resolved its record: the record is gone, the directory received
\* add_roles once and remove_role once, the outcome is None.
Resolved(t) ==
    /\ task[t].pc = "done"
    /\ task[t].delete_result = "Ok(Some)"
    /\ task[t].deleted \notin store
    /\ Len(task[t].calls) = 2
    /\ Len(CallsOf(t, "add_roles")) = 1
    /\ Len(CallsOf(t, "remove_role")) = 1
    /\ task[t].outcome = None

\* What the claim sets aside: the task was cancelled, the store no longer held
\* the record when the task fired, or a store or directory call failed.
Excused(t) ==
    \/ task[t].pc = "aborted"
    \/ task[t].delete_result \in {"Err", "Ok(None)"}
    \/ ~AllOk(task[t].calls)

\* C7: a task sleeping for a muted subject whose record is in the store: when
\* the store still holds the record as the delay elapses and every store and
\* directory call succeeds, the task eventually deletes the record, calls
\* add_roles exactly once and remove_role exactly once and reports None.
C7_ExpiryResolves ==
    \A t \in Tasks :
        (task[t].pc = "sleep" /\ Matching(to_string(task[t].user)) # {})
            ~> (Resolved(t) \/ Excused(t))

\* C7 witness: a record with one taken role was resolved after its delay.
C7_Witness ==
    \E t \in Tasks :
        /\ Resolved(t)
        /\ Len(task[t].deleted.taken_roles) = 1
        /\ AllOk(task[t].calls)
        /\ Matching(to_string(task[t].user)) = {}
        /\ roles[task[t].user] = Range(ParsedRoles(task[t].deleted))

\* The stage at which a finished task's resolution failed.
Stage(t) ==
    IF task[t].delete_result = "Err" THEN "storage deletion"
    ELSE IF AllOk(task[t].calls) THEN "ok"
    ELSE IF task[t].calls[Len(task[t].calls)].op = "add_roles" THEN "role re-addition"
    ELSE "role removal"

\* C8: the outcome of a finished task identifies the stage at which the
\* resolution failed: two tasks that ended at different stages (storage
\* deletion, role re-addition, role removal, ok) report different outcomes.
C8_OutcomeIdentifiesStage ==
    \A t1, t2 \in Tasks :
        (task[t1].pc = "done" /\ task[t2].pc = "done" /\ Stage(t1) # Stage(t2))
            => task[t1].outcome # task[t2].outcome

\* Every invocation asked the directory for at most one add_role, of the mute
\* role, and one that found a record and has returned asked for exactly one.
C9_OneAdd ==
    \A j \in Joins :
        /\ Len(join[j].calls) <= 1
        /\ \A k \in 1..Len(join[j].calls) :
              join[j].calls[k].op = "add_role" /\ join[j].calls[k].roles = <<MuteRole>>
        /\ (join[j].pc = "done" /\ join[j].found) => Len(join[j].calls) = 1

\* A step of mute_on_join leaves the store and every task as they were.
C9_Step == (join' # join) => (store' = store /\ task' = task)

\* C9: a rejoin while the subject's record exists issues exactly one add of
\* the mute role and leaves the store unchanged: no record is inserted or
\* deleted and no expiry task is armed or cancelled, whether the add succeeds
\* or fails.
C9_RejoinAddsOnceStoreUntouched == [](C9_OneAdd) /\ [][C9_Step]_vars

\* C9 witness: the handler found the record and its add_role failed; the
\* record is in the store and the expiry task still sleeps.
C9_Witness ==
    \E j \in Joins, t \in Tasks :
        /\ join[j].pc = "done"
        /\ join[j].found
        /\ join[j].calls = <<DirCall("add_role", <<MuteRole>>, FALSE)>>
        /\ Matching(to_string(join[j].user)) # {}
        /\ task[t].pc = "sleep"
        /\ task[t].user = join[j].user

\* An invocation whose add of the mute role failed has handed its caller a
\* directory error, a value other than the () every other path returns.
C10_Surfaced ==
    \A j \in Joins :
        (join[j].pc = "done" /\ join[j].calls # <<>> /\ ~AllOk(join[j].calls))
            => join[j].ret \in SerenityErrors

\* The step in which the add fails leaves the store as it was.
C10_Step ==
    \A j \in Joins :
        (join[j].pc = "add_role" /\ ~AllOk(join'[j].calls)) => store' = store

\* C10: when the add of the mute role fails, mute_on_join surfaces to its
\* caller a directory error that can be told from success and from a store
\* failure, and the record is left in the store for a later expiry fire.
C10_RejoinSurfacesDirectoryError == [](C10_Surfaced) /\ [][C10_Step]_vars

\* ------------------------------------------------- rejoin events, replayed

\* The invocations of mute_on_join when the join event of a member is
\* delivered more than once.
Rejoins == 1..(NumJoins + 1)

\* The member leaves the guild and the directory forgets its roles; a member
\* who comes back starts with none. Every delivery of the join event comes
\* after the member left.
Leave(u) ==
    /\ \A j \in DOMAIN join : join[j].pc = "idle"
    /\ roles[u] # {}
    /\ roles' = [roles EXCEPT ![u] = {}]
    /\ UNCHANGED <<store, task, join, ban>>

RejoinInit ==
    /\ store = {OtherRecord}
    /\ roles \in [Users -> SUBSET RoleIds]
    /\ task = [t \in Tasks |-> IdleTask]
    /\ join = [j \in Rejoins |-> IdleJoin]
    /\ ban = <<>>

\* The timers are still asleep: the record of a muted member stays in the
\* store while the join events are handled.
RejoinNext ==
    \/ \E t \in Tasks, u \in Users, d \in Delays : Mute(t, u, d)
    \/ \E u \in Users : Leave(u)
    \/ \E j \in Rejoins, u \in Users : MuteOnJoinFind(j, u)
    \/ \E j \in Rejoins : MuteOnJoinAddRole(j)

RejoinSpec == RejoinInit /\ [][RejoinNext]_vars

\* The invocations for u that found the record and whose add_role succeeded.
Succeeded(u) ==
    {j \in DOMAIN join : /\ join[j].user = u
                         /\ join[j].pc = "done"
                         /\ join[j].found
                         /\ AllOk(join[j].calls)}

C11_Step ==
    \A u \in Users :
        Succeeded(u) # {} =>
            /\ MuteRole \in roles[u]
            /\ Matching(to_string(u)) # {}
            /\ (join' # join => roles' = roles /\ store' = store)

\* C11: mute_on_join is idempotent. Once one invocation for a subject whose
\* record exists has added the mute role, the subject holds the mute role
\* and the record is in the store, and every step of a further invocation
\* leaves the store and every member's roles exactly as that one invocation
\* left them.
C11_RejoinIdempotent == [][C11_Step]_vars

\* C11 witness: a muted member left and came back, the join event was handled
\* twice, both invocations found the record and added the mute role, and the
\* member holds the mute role alone.
C11_Witness ==
    \E u \in Users :
        /\ Cardinality(Succeeded(u)) >= 2
        /\ roles[u] = {MuteRole}
        /\ Cardinality(Matching(to_string(u))) = 1

\* ------------------------------------------------------- ban_moderation

\* Option<u8>, Option<String>
Nothing == [some |-> FALSE, val |-> 0]
Just(v) == [some |-> TRUE, val |-> v]

unwrap_or(o, d) == IF o.some THEN o.val ELSE d

min(a, b) == IF a <= b THEN a ELSE b

\* BanKind
Ban(user, dmd, reason) == [user |-> user, dmd |-> dmd, reason |-> reason, tag |-> "Ban"]
Unban(user) == [user |-> user, dmd |-> Nothing, reason |-> Nothing, tag |-> "Unban"]

\* What a ban command can ask for: dmd is an Option<u8>.
Dmds == {Nothing} \cup {Just(d) : d \in 0..MaxDmd}
Reasons == {Nothing, Just("spam")}

\* Mutant: the days asked for are passed on as they are.
delete_message_days_unclamped(dmd) == unwrap_or(dmd, 0)

\* cmp::min(dmd.unwrap_or(0), 7), a u8.
delete_message_days(dmd) == min(unwrap_or(dmd, 0), 7) % 256

\* The call the adapter receives for kind; result is what the adapter answers.
AdapterCall(kind, result) ==
    IF kind.tag = "Ban"
    THEN [user |-> kind.user, op |-> "ban_user",
          reason |-> Just(unwrap_or(kind.reason, "None specified")),
          delete_message_days |-> delete_message_days(kind.dmd),
          result |-> result]
    ELSE [user |-> kind.user, op |-> "remove_ban", reason |-> Nothing,
          delete_message_days |-> 0, result |-> result]

\* Result<(), SerenityError> of an adapter call.
AdapterResults == {"Ok"} \cup SerenityErrors

\* Mutant: a failed adapter call is made a second time.
ban_moderation_retries(kind, result) ==
    [kind |-> kind,
     calls |-> IF result = "Ok" THEN <<AdapterCall(kind, result)>>
               ELSE <<AdapterCall(kind, result), AdapterCall(kind, result)>>,
     store |-> store,
     ret |-> IF result # "Ok" THEN Some(result) ELSE None]

\* ban_moderation from its call to its return: the adapter calls it made, the
\* store as it left it and the Option<SerenityError> it returned.
ban_moderation(kind, result) ==
    [kind |-> kind,
     calls |-> <<AdapterCall(kind, result)>>,
     store |-> store,
     ret |-> IF result # "Ok" THEN Some(result) ELSE None]

BanModeration(kind) ==
    /\ Len(ban) < MaxBans
    /\ \E result \in AdapterResults :
          LET b == ban_moderation(kind, result) IN
          /\ ban' = Append(ban, [kind |-> b.kind, calls |-> b.calls, ret |-> b.ret])
          /\ store' = b.store
    /\ UNCHANGED <<roles, task, join>>

\* A ban command and an unban command, with members muted, unmuted and
\* rejoining around them.
BanNext ==
    \/ \E u \in Users, dmd \in Dmds, reason \in Reasons : BanModeration(Ban(u, dmd, reason))
    \/ \E u \in Users : BanModeration(Unban(u))
    \/ \E t \in Tasks, u \in Users, d \in Delays : Mute(t, u, d)

BanSpec == Init /\ [][BanNext]_vars

\* C12: for every ban request the delete-message-days the adapter receives
\* is min(requested, 7), an omitted request counting as 0: 30 gives 7, 3 gives
\* 3, 0 or omitted gives 0, and the adapter never receives more than 7.
C12_PurgeDaysClamped ==
    \A i \in 1..Len(ban) :
        ban[i].kind.tag = "Ban" =>
            LET asked == ban[i].kind.dmd
                passed == ban[i].calls[1].delete_message_days IN
            /\ passed <= 7
            /\ ~asked.some => passed = 0
            /\ asked.some /\ asked.val <= 7 => passed = asked.val
            /\ asked.some /\ asked.val > 7 => passed = 7
            /\ asked = Just(30) => passed = 7
            /\ asked = Just(3) => passed = 3
            /\ asked = Just(0) => passed = 0

\* C12 witness: a ban that asked for 30 days reached the adapter with 7.
C12_Witness ==
    \E i \in 1..Len(ban) :
        /\ ban[i].kind.tag = "Ban"
        /\ ban[i].kind.dmd = Just(30)
        /\ ban[i].calls[1].op = "ban_user"
        /\ ban[i].calls[1].delete_message_days = 7

\* ------------------------------------------------------ partial failure

\* The last directory call of a finished task failed.
FailedAt(t, op) ==
    /\ task[t].pc = "done"
    /\ task[t].calls # <<>>
    /\ task[t].calls[Len(task[t].calls)].op = op
    /\ ~task[t].calls[Len(task[t].calls)].ok

\* Nothing but task t has touched the member's roles since the one mute:
\* no other task and no mute_on_join made a directory call, and the member
\* was muted once.
Alone(t) ==
    /\ Inserted = 1
    /\ \A x \in Tasks \ {t} : task[x].calls = <<>>
    /\ \A j \in DOMAIN join : join[j].calls = <<>>

\* C13: a task whose add_roles fails makes no remove_role call, does not put
\* the record back and returns Some(error): the record is out of the store
\* and the member, left to this task, holds the mute role and none of the
\* taken roles. A task whose add_roles succeeds and whose remove_role fails
\* returns Some(error) too: the record is out of the store and the member
\* holds the taken roles together with the mute role.
C13_PartialFailure ==
    \A t \in Tasks :
        LET u == task[t].user
            taken == Range(ParsedRoles(task[t].find_result)) IN
        /\ FailedAt(t, "add_roles") =>
              /\ Len(task[t].calls) = 1
              /\ task[t].outcome.some
              /\ task[t].deleted = task[t].find_result
              /\ task[t].deleted \notin store
              /\ Alone(t) =>
                    /\ Matching(to_string(u)) = {}
                    /\ roles[u] = {MuteRole}
                    /\ roles[u] \cap taken = {}
        /\ FailedAt(t, "remove_role") =>
              /\ Len(task[t].calls) = 2
              /\ task[t].calls[1] = DirCall("add_roles", ParsedRoles(task[t].find_result), TRUE)
              /\ task[t].outcome.some
              /\ task[t].deleted = task[t].find_result
              /\ task[t].deleted \notin store
              /\ Alone(t) =>
                    /\ Matching(to_string(u)) = {}
                    /\ roles[u] = taken \cup {MuteRole}

\* C13 witness: a member who held two roles was muted; the task of one mute
\* failed at add_roles and, after a second mute, another failed at
\* remove_role.
C13_Witness ==
    \E t1, t2 \in Tasks :
        /\ FailedAt(t1, "add_roles")
        /\ Len(task[t1].find_result.taken_roles) = 2
        /\ FailedAt(t2, "remove_role")

\* A task alone with the member failed at add_roles, the member having held
\* two roles.
C13_AloneReached ==
    \E t \in Tasks :
        /\ FailedAt(t, "add_roles") /\ Alone(t)
        /\ Len(task[t].find_result.taken_roles) = 2

\* ----------------------------------------------------- one pass, no retry

\* How far a task has come: an await it has passed is never awaited again.
Rank(pc) ==
    CASE pc = "unspawned" -> 0
      [] pc = "sleep" -> 1
      [] pc = "find_and_delete" -> 2
      [] pc = "add_roles" -> 3
      [] pc = "remove_role" -> 4
      [] OTHER -> 5

C14_State ==
    \A t \in Tasks :
        /\ Rank(task[t].pc) >= 2 => task[t].sleep_left = 0
        /\ Len(CallsOf(t, "add_roles")) <= 1
        /\ Len(CallsOf(t, "remove_role")) <= 1
        /\ Len(task[t].calls) <= 2
        /\ task[t].pc = "done" /\ task[t].outcome.some =>
              \/ task[t].delete_result = "Err" /\ task[t].calls = <<>>
              \/ task[t].delete_result = "Ok(Some)" /\ ~task[t].calls[Len(task[t].calls)].ok

C14_Step ==
    /\ (\A x \in Tasks : task[x].pc # "find_and_delete") => store \subseteq store'
    /\ \A t \in Tasks :
        /\ task'[t].pc # task[t].pc => Rank(task'[t].pc) > Rank(task[t].pc)
        /\ task'[t].pc = "find_and_delete" /\ task[t].pc # "find_and_delete" =>
              task[t].pc = "sleep" /\ task[t].sleep_left = 0
        /\ task[t].pc # "find_and_delete" =>
              /\ task'[t].delete_result = task[t].delete_result
              /\ task'[t].deleted = task[t].deleted
        /\ Len(task'[t].calls) <= Len(task[t].calls) + 1
        /\ Rank(task[t].pc) = 5 => task'[t] = task[t]

\* C14: a task calls find_and_delete at most once and only when its sleep is
\* over, calls add_roles at most once and remove_role at most once, and once
\* it has returned (after a failure of the store or of the directory, or
\* after success) it makes no further call: every await is passed at most
\* once, in order, and a finished task never changes again.
C14_OnePassNoRetry == [][C14_Step]_vars /\ []C14_State

\* C14 witness: a task whose add_roles failed has returned its error with
\* that one directory call, while another task is still asleep.
C14_Witness ==
    \E t1, t2 \in Tasks :
        /\ task[t1].pc = "done"
        /\ task[t1].outcome.some
        /\ task[t1].delete_result = "Ok(Some)"
        /\ Len(task[t1].calls) = 1
        /\ task[t2].pc = "sleep"
        /\ task[t2].sleep_left > 0

\* ------------------------------------------------------ process restart

\* The process stops and starts again. The tasks live in the runtime of the
\* process that spawned them: a task suspended at an await is gone, and so is
\* a handler invocation that was under way. Nothing reads the store at
\* startup to spawn the tasks again.
Restart ==
    /\ \E t \in Tasks : task[t].pc \in Suspended
    /\ task' = [t \in Tasks |->
                  IF task[t].pc \in Suspended
                  THEN [task[t] EXCEPT !.pc = "lost", !.sleep_left = 0]
                  ELSE task[t]]
    /\ join' = [j \in DOMAIN join |->
                  IF join[j].pc = "add_role"
                  THEN [join[j] EXCEPT !.pc = "lost"]
                  ELSE join[j]]
    /\ UNCHANGED <<store, roles, ban>>

\* Mutes, their timers, restarts and rejoins; nobody unmutes by hand.
RestartNext ==
    \/ \E t \in Tasks, u \in Users, d \in Delays : Mute(t, u, d)
    \/ Tick
    \/ \E t \in Tasks : ExpirySleep(t)
    \/ \E t \in Tasks : ExpiryFindAndDelete(t)
    \/ \E t \in Tasks : ExpiryAddRoles(t)
    \/ \E t \in Tasks : ExpiryRemoveRole(t)
    \/ Restart
    \/ \E u \in Users : Leave(u)
    \/ \E j \in Joins, u \in Users : MuteOnJoinFind(j, u)
    \/ \E j \in Joins : MuteOnJoinAddRole(j)

RestartSpec == Init /\ [][RestartNext]_vars

\* The record of u is in the store, a task for u was lost in a restart and no
\* task for u is left in the runtime.
Orphaned(u) ==
    /\ Matching(to_string(u)) # {}
    /\ \E t \in Tasks : task[t].user = u /\ task[t].pc = "lost"
    /\ \A t \in Tasks : task[t].user = u => task[t].pc \notin Suspended

C15_Step ==
    \A u \in Users :
        Orphaned(u) =>
            /\ Orphaned(u)'
            /\ store' = store
            /\ task' = task
            /\ \A j \in DOMAIN join :
                  /\ join[j].pc = "idle" /\ join'[j].pc # "idle" /\ join'[j].user = u =>
                        \/ join'[j].pc = "add_role" /\ join'[j].found
                        \/ join'[j].log \in {<<"Failed to query database for muted users">>,
                                             <<"Failed to advance the cursor">>}
                  /\ join[j].pc = "add_role" /\ join'[j].pc = "done" /\ join[j].user = u =>
                        /\ join'[j].calls = <<DirCall("add_role", <<MuteRole>>, TRUE)>>
                              => MuteRole \in roles'[u]
                        /\ Len(join'[j].calls) = 1
                        /\ join'[j].calls[1].op = "add_role"
                        /\ join'[j].calls[1].roles = <<MuteRole>>

\* C15: once a restart has taken the pending task of a muted member and
\* nobody unmutes by hand, the record stays in the store from then on, no
\* task is spawned or resumed for it and no restoration call is made; every
\* mute_on_join for the member from then on that reads the store without
\* error finds the record and calls add_role with the mute role.
C15_LostTimerNeverResolved == [][C15_Step]_vars

\* C15 witness: a task was lost in a restart with its record still in the
\* store, and a mute_on_join that started after the restart has found the
\* record and is about to add the mute role.
C15_Witness ==
    \E u \in Users, t \in Tasks, j \in DOMAIN join :
        /\ Orphaned(u)
        /\ task[t].pc = "lost" /\ task[t].user = u /\ task[t].deleted = NoRecord
        /\ join[j].pc = "add_role" /\ join[j].user = u /\ join[j].found

\* ------------------------------------------- rejoin without a record

C16_State ==
    \A j \in DOMAIN join :
        /\ join[j].pc = "add_role" => join[j].found
        /\ join[j].calls # <<>> => join[j].found
        /\ join[j].pc = "done" /\ ~join[j].found =>
              /\ join[j].calls = <<>>
              /\ join[j].log \in {<<>>,
                                  <<"Failed to query database for muted users">>,
                                  <<"Failed to advance the cursor">>}

C16_Step ==
    \A j \in DOMAIN join :
        join'[j] # join[j] =>
            /\ store' = store
            /\ join[j].pc = "idle" =>
                  /\ roles' = roles
                  /\ join'[j].calls = <<>>
                  /\ join'[j].found => Matching(to_string(join'[j].user)) # {}
            /\ roles' # roles => join[j].pc = "add_role" /\ join[j].found

\* C16: mute_on_join calls add_role only after a lookup that succeeded and
\* returned a record of the joining member. When no record is found, when the
\* query fails or when the cursor advance fails it returns with no directory
\* call made, and no step of it changes the store.
C16_NoRecordNoAddRole == [][C16_Step]_vars /\ []C16_State

\* C16 witness: the member's record is in the store, the cursor advance of a
\* mute_on_join for that member failed, and the handler returned without a
\* directory call.
C16_Witness ==
    \E j \in DOMAIN join :
        /\ join[j].pc = "done"
        /\ join[j].log = <<"Failed to advance the cursor">>
        /\ join[j].calls = <<>>
        /\ Matching(to_string(join[j].user)) # {}

\* ------------------------------------------- one adapter call per ban

C17_State ==
    \A i \in 1..Len(ban) :
        LET b == ban[i] IN
        /\ Len(b.calls) = 1
        /\ b.calls[1].op = (IF b.kind.tag = "Ban" THEN "ban_user" ELSE "remove_ban")
        /\ b.calls[1].user = b.kind.user
        /\ b.calls[1].result = "Ok" => b.ret = None
        /\ b.calls[1].result # "Ok" => b.ret = Some(b.calls[1].result)
        /\ b.ret.some <=> b.calls[1].result \in SerenityErrors

C17_Step ==
    ban' # ban =>
        /\ Len(ban') = Len(ban) + 1
        /\ SubSeq(ban', 1, Len(ban)) = ban
        /\ store' = store
        /\ roles' = roles
        /\ task' = task

\* C17: every invocation of ban_moderation makes exactly one adapter call,
\* ban_user for Ban and remove_ban for Unban, for the user it was given; it
\* returns Some(err) with the adapter's error exactly when that call failed
\* and None when it succeeded, and it leaves the store, and the roles and
\* tasks with it, as they were.
C17_OneAdapterCall == [][C17_Step]_vars /\ []C17_State

\* C17 witness: with a mute record in the store, a ban whose ban_user call
\* failed returned that error after the one call.
C17_Witness ==
    \E i \in 1..Len(ban) :
        /\ ban[i].kind.tag = "Ban"
        /\ ban[i].calls = <<AdapterCall(ban[i].kind, "Http")>>
        /\ ban[i].ret = Some("Http")
        /\ store # {OtherRecord}

\* An unban whose remove_ban succeeded returned None.
C17_UnbanReached ==
    \E i \in 1..Len(ban) :
        /\ ban[i].kind.tag = "Unban"
        /\ ban[i].calls[1].op = "remove_ban"
        /\ ban[i].ret = None

\* ------------------------------------------------------------ termination

\* The store and directory calls of a task that were answered to it.
ExternalCalls(t) ==
    (IF task[t].delete_result # "" THEN 1 ELSE 0) + Len(task[t].calls)

\* The task returned, with the one Option<Error> its path through the block
\* yields.
Finished(t) ==
    /\ task[t].pc = "done"
    /\ \/ task[t].delete_result = "Err" /\ task[t].outcome.some /\ ExternalCalls(t) = 1
       \/ task[t].delete_result = "Ok(None)" /\ task[t].outcome = None /\ ExternalCalls(t) = 1
       \/ /\ task[t].delete_result = "Ok(Some)"
          /\ ExternalCalls(t) \in {2, 3}
          /\ task[t].outcome.some <=> ~AllOk(task[t].calls)

C18_Bounded ==
    \A t \in Tasks :
        /\ ExternalCalls(t) <= 3
        /\ task[t].pc = "done" => Finished(t)
        /\ task[t].pc # "done" => task[t].outcome = None

\* C18: a task that is not aborted finishes once its sleep is over, whatever
\* the store and the directory answer: it returns exactly one Option<Error>
\* after at most three answered calls (find_and_delete, add_roles,
\* remove_role), and its progress asks nothing of any other task.
C18_Terminates ==
    /\ []C18_Bounded
    /\ \A t \in Tasks :
          (task[t].pc \in Suspended) ~> (Finished(t) \/ task[t].pc = "aborted")

\* C18 witness: one task returned None after its three calls were answered
\* Ok, another returned the store's error after its single call.
C18_Witness ==
    \E t1, t2 \in Tasks :
        /\ Finished(t1) /\ ExternalCalls(t1) = 3 /\ task[t1].outcome = None
        /\ Finished(t2) /\ task[t2].delete_result = "Err"


====
